---- MODULE Spec2Model ----
(***************************************************************************)
(* Security-policy rule validation of s2n-tls (tls/s2n_security_rules.c):  *)
(* the rule registry, the rule selector, the per-rule policy validator and *)
(* the result accumulator with its optional diagnostic output.             *)
(***************************************************************************)
EXTENDS Integers, Sequences, FiniteSets, TLC

VARIABLES policy, result, last, ncalls, initCalled

vars == <<policy, result, last, ncalls, initCalled>>

(***************************************************************************)
(* Bounds of the model.                                                    *)
(***************************************************************************)
\* longest cipher preference list
MaxCiphers == 2
\* largest value drawn for policy->rules
MaxRulesValue == 2
\* validation calls made on one result
MaxCalls == 2

(***************************************************************************)
(* Pointers.  A pointer is a record; the null pointer has no other field.  *)
(***************************************************************************)
NullPtr == [null |-> TRUE]

(***************************************************************************)
(* The rule registry.  A validator (function pointer) is named by a tag    *)
(* that Call* dispatches on.                                               *)
(***************************************************************************)
S2N_PERFECT_FORWARD_SECRECY == 0

S2N_SECURITY_RULES_COUNT == 1

security_rule_definitions ==
    << [ name |-> "Perfect Forward Secrecy",
         validate_cipher_suite |-> "s2n_security_rule_validate_forward_secret",
         validate_sig_scheme |-> "s2n_security_rule_all_sig_schemes",
         validate_cert_sig_scheme |-> "s2n_security_rule_all_sig_schemes",
         validate_curve |-> "s2n_security_rule_all_curves" ] >>

\* s2n_array_len(security_rule_definitions)
RegistryLen == Len(security_rule_definitions)

\* &security_rule_definitions[id]
RulePtr(id) == [null |-> FALSE, id |-> id]

\* *rule, for a pointer into the registry
Deref(rule) == security_rule_definitions[rule.id + 1]

\* a validator's answer: the S2N_RESULT and the value left in *valid
Verdict(ok, valid) == [ok |-> ok, valid |-> valid]

\* a slip: the verdict is whether a key exchange is named, not whether it is
\* ephemeral
validate_forward_secret_any_kex(cipher_suite) ==
    IF cipher_suite.null THEN Verdict(FALSE, FALSE)
    ELSE IF cipher_suite.key_exchange_alg.null THEN Verdict(FALSE, FALSE)
    ELSE Verdict(TRUE, TRUE)

s2n_security_rule_validate_forward_secret(cipher_suite) ==
    IF cipher_suite.null THEN Verdict(FALSE, FALSE)
    ELSE IF cipher_suite.key_exchange_alg.null THEN Verdict(FALSE, FALSE)
    ELSE Verdict(TRUE, cipher_suite.key_exchange_alg.is_ephemeral)

s2n_security_rule_all_sig_schemes(sig_scheme) == Verdict(TRUE, TRUE)

s2n_security_rule_all_curves(curve) == Verdict(TRUE, TRUE)

CallCipherSuite(fn, cipher_suite) ==
    CASE fn = "s2n_security_rule_validate_forward_secret" ->
            s2n_security_rule_validate_forward_secret(cipher_suite)

CallSigScheme(fn, sig_scheme) ==
    CASE fn = "s2n_security_rule_all_sig_schemes" ->
            s2n_security_rule_all_sig_schemes(sig_scheme)

CallCurve(fn, curve) ==
    CASE fn = "s2n_security_rule_all_curves" ->
            s2n_security_rule_all_curves(curve)

(***************************************************************************)
(* Formatting: "%s: policy %s: %s: %s (#%i)" and "%s: policy %s: %s: %x    *)
(* (#%i)".                                                                 *)
(***************************************************************************)
HexDigit(d) ==
    CASE d < 10 -> ToString(d)
      [] d = 10 -> "a"
      [] d = 11 -> "b"
      [] d = 12 -> "c"
      [] d = 13 -> "d"
      [] d = 14 -> "e"
      [] d = 15 -> "f"

RECURSIVE FormatHex(_)
\* %x: lower case, no leading zeros
FormatHex(n) ==
    IF n < 16 THEN HexDigit(n)
    ELSE FormatHex(n \div 16) \o HexDigit(n % 16)

\* %i, given i + 1: a position no larger than the list length
FormatInt(n) == ToString(n)

error_msg_format_name(rule_name, policy_name, category, name, index) ==
    rule_name \o ": policy " \o policy_name \o ": " \o category \o ": "
        \o name \o " (#" \o FormatInt(index) \o ")"

error_msg_format_iana(rule_name, policy_name, category, iana, index) ==
    rule_name \o ": policy " \o policy_name \o ": " \o category \o ": "
        \o FormatHex(iana) \o " (#" \o FormatInt(index) \o ")"

(***************************************************************************)
(* The growable stuffer holding the diagnostic text: data is the sequence  *)
(* of the pieces written to it.                                            *)
(***************************************************************************)
ZeroStuffer == [alloced |-> FALSE, growable |-> FALSE, data |-> <<>>]

s2n_stuffer_growable_alloc(stuffer, mem_ok) ==
    IF mem_ok THEN [alloced |-> TRUE, growable |-> TRUE, data |-> <<>>]
    ELSE ZeroStuffer

s2n_stuffer_free(stuffer) == ZeroStuffer

ZeroResult == [found_error |-> FALSE, write_output |-> FALSE, output |-> ZeroStuffer]

(***************************************************************************)
(* A validation call in progress: the result it works on, whether it is    *)
(* still running without error (ok), the number of stuffer writes for      *)
(* which growing the buffer still succeeds (mem), whether a write has      *)
(* failed (growfail) and the validator verdicts obtained so far.           *)
(***************************************************************************)
StartCall(res, mem) ==
    [result |-> res, ok |-> TRUE, mem |-> mem, growfail |-> FALSE, evaluated |-> <<>>]

\* RESULT_ENSURE_REF / RESULT_GUARD failing: the call returns an error
Bail(st) == [st EXCEPT !.ok = FALSE]

\* s2n_stuffer_vprintf / s2n_stuffer_write_char on result->output
StufferWrite(st, text) ==
    IF st.mem = 0 \/ ~st.result.output.growable
    THEN [st EXCEPT !.ok = FALSE, !.growfail = TRUE]
    ELSE [st EXCEPT !.mem = @ - 1, !.result.output.data = Append(@, text)]

\* a slip: only the first violation of a result is written
result_process_first_only(st, condition, line) ==
    IF condition THEN st
    ELSE LET s1 == [st EXCEPT !.result.found_error = TRUE]
         IN  IF ~s1.result.write_output \/ st.result.found_error THEN s1
             ELSE LET s2 == StufferWrite(s1, line)
                  IN  IF ~s2.ok THEN s2 ELSE StufferWrite(s2, "\n")

\* a slip: found_error is set once the line has been written
result_process_flag_last(st, condition, line) ==
    IF condition THEN st
    ELSE IF ~st.result.write_output THEN [st EXCEPT !.result.found_error = TRUE]
    ELSE LET s2 == StufferWrite(st, line)
             s3 == IF ~s2.ok THEN s2 ELSE StufferWrite(s2, "\n")
         IN  IF ~s3.ok THEN s3 ELSE [s3 EXCEPT !.result.found_error = TRUE]

\* a slip: the buffer is allocated on demand and written whether or not
\* capture was asked for
result_process_lazy_alloc(st, condition, line) ==
    IF condition THEN st
    ELSE LET s1 == [st EXCEPT !.result.found_error = TRUE,
                              !.result.output.alloced = TRUE,
                              !.result.output.growable = TRUE]
             s2 == StufferWrite(s1, line)
         IN  IF ~s2.ok THEN s2 ELSE StufferWrite(s2, "\n")

s2n_security_rule_result_process(st, condition, line) ==
    IF condition THEN st
    ELSE LET s1 == [st EXCEPT !.result.found_error = TRUE]
         IN  IF ~s1.result.write_output THEN s1
             ELSE LET s2 == StufferWrite(s1, line)
                  IN  IF ~s2.ok THEN s2 ELSE StufferWrite(s2, "\n")

\* the verdict of one validator call, kept for the claims about evaluation order
Evaluated(st, rule, cat, i, valid) ==
    [st EXCEPT !.evaluated =
        Append(@, [rule |-> rule.id, cat |-> cat, i |-> i, valid |-> valid])]

(***************************************************************************)
(* s2n_security_rule_validate_policy: the four loops.                      *)
(***************************************************************************)
\* a slip: a missing suite is skipped instead of ending the call
CipherSuiteStep_skip_missing(rule, policy_name, cipher_prefs, st, i) ==
    LET cipher_suite == cipher_prefs.suites[i + 1]
    IN  IF cipher_suite.null THEN st
        ELSE LET v == CallCipherSuite(Deref(rule).validate_cipher_suite, cipher_suite)
             IN  IF ~v.ok THEN Bail(st)
                 ELSE s2n_security_rule_result_process(
                          Evaluated(st, rule, 1, i, v.valid), v.valid,
                          error_msg_format_name(Deref(rule).name, policy_name,
                              "cipher suite", cipher_suite.name, i + 1))

\* a slip: the position is reported as the internal index
CipherSuiteStep_zero_based(rule, policy_name, cipher_prefs, st, i) ==
    LET cipher_suite == cipher_prefs.suites[i + 1]
    IN  IF cipher_suite.null THEN Bail(st)
        ELSE LET v == CallCipherSuite(Deref(rule).validate_cipher_suite, cipher_suite)
             IN  IF ~v.ok THEN Bail(st)
                 ELSE s2n_security_rule_result_process(
                          Evaluated(st, rule, 1, i, v.valid), v.valid,
                          error_msg_format_name(Deref(rule).name, policy_name,
                              "cipher suite", cipher_suite.name, i))

CipherSuiteStep(rule, policy_name, cipher_prefs, st, i) ==
    LET cipher_suite == cipher_prefs.suites[i + 1]
    IN  IF cipher_suite.null THEN Bail(st)
        ELSE LET v == CallCipherSuite(Deref(rule).validate_cipher_suite, cipher_suite)
             IN  IF ~v.ok THEN Bail(st)
                 ELSE s2n_security_rule_result_process(
                          Evaluated(st, rule, 1, i, v.valid), v.valid,
                          error_msg_format_name(Deref(rule).name, policy_name,
                              "cipher suite", cipher_suite.name, i + 1))

RECURSIVE CipherSuiteLoop(_, _, _, _, _)
CipherSuiteLoop(rule, policy_name, cipher_prefs, st, i) ==
    IF ~st.ok \/ ~(i < cipher_prefs.count) THEN st
    ELSE CipherSuiteLoop(rule, policy_name, cipher_prefs,
             CipherSuiteStep(rule, policy_name, cipher_prefs, st, i), i + 1)

SigSchemeStep(rule, policy_name, sig_prefs, st, i) ==
    LET sig_scheme == sig_prefs.signature_schemes[i + 1]
    IN  IF sig_scheme.null THEN Bail(st)
        ELSE LET v == CallSigScheme(Deref(rule).validate_sig_scheme, sig_scheme)
             IN  IF ~v.ok THEN Bail(st)
                 ELSE s2n_security_rule_result_process(
                          Evaluated(st, rule, 2, i, v.valid), v.valid,
                          error_msg_format_iana(Deref(rule).name, policy_name,
                              "signature scheme", sig_scheme.iana_value, i + 1))

RECURSIVE SigSchemeLoop(_, _, _, _, _)
SigSchemeLoop(rule, policy_name, sig_prefs, st, i) ==
    IF ~st.ok \/ ~(i < sig_prefs.count) THEN st
    ELSE SigSchemeLoop(rule, policy_name, sig_prefs,
             SigSchemeStep(rule, policy_name, sig_prefs, st, i), i + 1)

CertSigSchemeStep(rule, policy_name, cert_sig_prefs, st, i) ==
    LET sig_scheme == cert_sig_prefs.signature_schemes[i + 1]
    IN  IF sig_scheme.null THEN Bail(st)
        ELSE LET v == CallSigScheme(Deref(rule).validate_cert_sig_scheme, sig_scheme)
             IN  IF ~v.ok THEN Bail(st)
                 ELSE s2n_security_rule_result_process(
                          Evaluated(st, rule, 3, i, v.valid), v.valid,
                          error_msg_format_iana(Deref(rule).name, policy_name,
                              "certificate signature scheme", sig_scheme.iana_value, i + 1))

RECURSIVE CertSigSchemeLoop(_, _, _, _, _)
CertSigSchemeLoop(rule, policy_name, cert_sig_prefs, st, i) ==
    IF ~st.ok \/ ~(i < cert_sig_prefs.count) THEN st
    ELSE CertSigSchemeLoop(rule, policy_name, cert_sig_prefs,
             CertSigSchemeStep(rule, policy_name, cert_sig_prefs, st, i), i + 1)

CurveStep(rule, policy_name, ecc_prefs, st, i) ==
    LET curve == ecc_prefs.ecc_curves[i + 1]
    IN  IF curve.null THEN Bail(st)
        ELSE LET v == CallCurve(Deref(rule).validate_curve, curve)
             IN  IF ~v.ok THEN Bail(st)
                 ELSE s2n_security_rule_result_process(
                          Evaluated(st, rule, 4, i, v.valid), v.valid,
                          error_msg_format_name(Deref(rule).name, policy_name,
                              "curve", curve.name, i + 1))

RECURSIVE CurveLoop(_, _, _, _, _)
CurveLoop(rule, policy_name, ecc_prefs, st, i) ==
    IF ~st.ok \/ ~(i < ecc_prefs.count) THEN st
    ELSE CurveLoop(rule, policy_name, ecc_prefs,
             CurveStep(rule, policy_name, ecc_prefs, st, i), i + 1)

\* s2n_security_policy_get_version, ignored on failure; NULL becomes "unnamed"
PolicyName(pol) == IF pol.version.found THEN pol.version.name ELSE "unnamed"

s2n_security_rule_validate_policy(rule, pol, st) ==
    IF rule.null \/ pol.null THEN Bail(st)
    ELSE
      LET policy_name == PolicyName(pol)
          s1 == IF pol.cipher_preferences.null THEN Bail(st)
                ELSE CipherSuiteLoop(rule, policy_name, pol.cipher_preferences, st, 0)
          s2 == IF ~s1.ok THEN s1
                ELSE IF pol.signature_preferences.null THEN Bail(s1)
                ELSE SigSchemeLoop(rule, policy_name, pol.signature_preferences, s1, 0)
          s3 == IF ~s2.ok THEN s2
                ELSE IF pol.certificate_signature_preferences.null THEN s2
                ELSE CertSigSchemeLoop(rule, policy_name,
                         pol.certificate_signature_preferences, s2, 0)
          s4 == IF ~s3.ok THEN s3
                ELSE IF pol.ecc_preferences.null THEN Bail(s3)
                ELSE CurveLoop(rule, policy_name, pol.ecc_preferences, s3, 0)
      IN  s4

(***************************************************************************)
(* s2n_security_policy_get_security_rules: the selector.                   *)
(***************************************************************************)
Selected(ok, rules, rules_count) ==
    [ok |-> ok, rules |-> rules, rules_count |-> rules_count]

RECURSIVE SelectLoop(_, _, _, _)
SelectLoop(flags, rule, rules, max_rules_count) ==
    IF ~(rule < S2N_SECURITY_RULES_COUNT) THEN Selected(TRUE, rules, Len(rules))
    ELSE LET is_set == (flags % 2) = 1
             shifted == flags \div 2
         IN  IF ~is_set THEN SelectLoop(shifted, rule + 1, rules, max_rules_count)
             ELSE IF ~(0 <= rule /\ rule <= RegistryLen) THEN Selected(FALSE, rules, 0)
             ELSE IF ~(Len(rules) < max_rules_count) THEN Selected(FALSE, rules, 0)
             ELSE SelectLoop(shifted, rule + 1, Append(rules, RulePtr(rule)),
                      max_rules_count)

s2n_security_policy_get_security_rules(pol, max_rules_count) ==
    IF pol.null THEN Selected(FALSE, <<>>, 0)
    ELSE SelectLoop(pol.rules, 0, <<>>, max_rules_count)

RECURSIVE RulesLoop(_, _, _, _, _)
RulesLoop(rules, rules_count, pol, st, i) ==
    IF ~st.ok \/ ~(i < rules_count) THEN st
    ELSE RulesLoop(rules, rules_count, pol,
             s2n_security_rule_validate_policy(rules[i + 1], pol, st), i + 1)

\* a slip: each call starts from a cleared found_error
validate_security_rules_reset(pol, st) ==
    LET sel == s2n_security_policy_get_security_rules(pol, S2N_SECURITY_RULES_COUNT)
        s0 == [st EXCEPT !.result.found_error = FALSE]
    IN  IF ~sel.ok THEN Bail(s0)
        ELSE RulesLoop(sel.rules, sel.rules_count, pol, s0, 0)

s2n_security_policy_validate_security_rules(pol, st) ==
    LET sel == s2n_security_policy_get_security_rules(pol, S2N_SECURITY_RULES_COUNT)
    IN  IF ~sel.ok THEN Bail(st)
        ELSE RulesLoop(sel.rules, sel.rules_count, pol, st, 0)

(***************************************************************************)
(* s2n_security_rule_result_init_output and s2n_security_rule_result_free. *)
(***************************************************************************)
s2n_security_rule_result_init_output(res, mem_ok) ==
    LET out == s2n_stuffer_growable_alloc(res.output, mem_ok)
    IN  IF ~mem_ok THEN [ok |-> FALSE, result |-> [res EXCEPT !.output = out]]
        ELSE [ok |-> TRUE, result |-> [res EXCEPT !.output = out, !.write_output = TRUE]]

\* a slip: the stuffer is freed and the flags are left as they were
result_free_stuffer_only(res) ==
    [ok |-> TRUE, result |-> [res EXCEPT !.output = s2n_stuffer_free(res.output)]]

\* s2n_stuffer_free, which does not fail, then *result = { 0 }
s2n_security_rule_result_free(res) ==
    LET freed == [res EXCEPT !.output = s2n_stuffer_free(res.output)]
    IN  [ok |-> TRUE,
         result |-> [freed EXCEPT !.found_error = FALSE, !.write_output = FALSE,
                                  !.output = ZeroStuffer]]

(***************************************************************************)
(* The policies the caller may hand in.                                    *)
(***************************************************************************)
KexAlg(is_ephemeral) == [null |-> FALSE, is_ephemeral |-> is_ephemeral]

CipherSuite(name, kex) == [null |-> FALSE, name |-> name, key_exchange_alg |-> kex]

DHE_SUITE == CipherSuite("DHE_SUITE", KexAlg(TRUE))

RSA_SUITE == CipherSuite("RSA_SUITE", KexAlg(FALSE))

NULL_KEX_SUITE == CipherSuite("NULL_KEX_SUITE", NullPtr)

\* ecdsa_secp256r1_sha256, 0x0403
SigScheme == [null |-> FALSE, iana_value |-> 1027]

Curve == [null |-> FALSE, name |-> "secp256r1"]

\* the non-empty lists of at most n members of S
SeqUpTo(S, n) == UNION {[1..k -> S] : k \in 1..n}

Prefs(field, s) == [null |-> FALSE, count |-> Len(s)] @@ (field :> s)

CipherPrefs ==
    {NullPtr} \cup
    {Prefs("suites", s) :
        s \in SeqUpTo({NullPtr, DHE_SUITE, RSA_SUITE, NULL_KEX_SUITE}, MaxCiphers)}

\* absent, one scheme, or a list whose entry is missing
SigPrefs ==
    {NullPtr, Prefs("signature_schemes", <<SigScheme>>),
     Prefs("signature_schemes", <<NullPtr>>)}

EccPrefs ==
    {NullPtr, Prefs("ecc_curves", <<Curve>>), Prefs("ecc_curves", <<NullPtr>>)}

Versions == {[found |-> FALSE], [found |-> TRUE, name |-> "test_all_ciphers"]}

Policy(shape, cipher_prefs, rules) ==
    [ null |-> FALSE,
      version |-> shape.version,
      cipher_preferences |-> cipher_prefs,
      signature_preferences |-> shape.signature_preferences,
      certificate_signature_preferences |-> shape.certificate_signature_preferences,
      ecc_preferences |-> shape.ecc_preferences,
      rules |-> rules ]

\* a named policy with one signature scheme, one curve and no certificate
\* signature list
Nominal ==
    [ version |-> [found |-> TRUE, name |-> "test_all_ciphers"],
      signature_preferences |-> Prefs("signature_schemes", <<SigScheme>>),
      certificate_signature_preferences |-> NullPtr,
      ecc_preferences |-> Prefs("ecc_curves", <<Curve>>) ]

\* Nominal, and Nominal with one of its fields replaced
Shapes ==
    {Nominal}
    \cup {[Nominal EXCEPT !.version = x] : x \in Versions}
    \cup {[Nominal EXCEPT !.signature_preferences = x] : x \in SigPrefs}
    \cup {[Nominal EXCEPT !.certificate_signature_preferences = x] : x \in SigPrefs}
    \cup {[Nominal EXCEPT !.ecc_preferences = x] : x \in EccPrefs}

Policies ==
    {NullPtr} \cup
    {Policy(shape, cipher_prefs, rules) :
        shape \in Shapes, cipher_prefs \in CipherPrefs, rules \in 0..MaxRulesValue}

\* the rule pointers a caller of s2n_security_rule_validate_policy may pass
RulePtrs == {NullPtr} \cup {RulePtr(id) : id \in 0..(RegistryLen - 1)}

\* stuffer writes one call can make
MaxWrites == 2 * MaxCiphers * S2N_SECURITY_RULES_COUNT

(***************************************************************************)
(* The state machine: one policy, one result, the caller's operations.     *)
(* last records the latest operation: its name, whether it returned        *)
(* S2N_RESULT_OK, the result before it, and for a validation call the      *)
(* verdicts obtained, whether a buffer growth failed and what the selector *)
(* returned.                                                               *)
(***************************************************************************)
NoSelection == Selected(FALSE, <<>>, 0)

Record(op, ret, pre, st, sel) ==
    [op |-> op, ret |-> ret, pre |-> pre, evaluated |-> st.evaluated,
     growfail |-> st.growfail, sel |-> sel]

Init ==
    /\ policy \in Policies
    /\ result = ZeroResult
    /\ last = Record("none", TRUE, ZeroResult, StartCall(ZeroResult, 0), NoSelection)
    /\ ncalls = 0
    /\ initCalled = FALSE

InitOutput ==
    /\ ~result.write_output
    /\ \E mem_ok \in BOOLEAN :
         LET r == s2n_security_rule_result_init_output(result, mem_ok)
         IN  /\ result' = r.result
             /\ last' = Record("init", r.ok, result, StartCall(result, 0), NoSelection)
    /\ initCalled' = TRUE
    /\ UNCHANGED <<policy, ncalls>>

ValidateRule ==
    /\ ncalls < MaxCalls
    /\ \E rule \in RulePtrs, mem \in 0..MaxWrites :
         LET st == s2n_security_rule_validate_policy(rule, policy, StartCall(result, mem))
         IN  /\ result' = st.result
             /\ last' = Record("rule", st.ok, result, st, NoSelection)
    /\ ncalls' = ncalls + 1
    /\ UNCHANGED <<policy, initCalled>>

ValidateAll ==
    /\ ncalls < MaxCalls
    /\ \E mem \in 0..MaxWrites :
         LET st == s2n_security_policy_validate_security_rules(policy, StartCall(result, mem))
         IN  /\ result' = st.result
             /\ last' = Record("all", st.ok, result, st,
                            s2n_security_policy_get_security_rules(policy,
                                S2N_SECURITY_RULES_COUNT))
    /\ ncalls' = ncalls + 1
    /\ UNCHANGED <<policy, initCalled>>

Free ==
    /\ LET r == s2n_security_rule_result_free(result)
       IN  /\ result' = r.result
           /\ last' = Record("free", r.ok, result, StartCall(result, 0), NoSelection)
    /\ UNCHANGED <<policy, ncalls, initCalled>>

Next == InitOutput \/ ValidateRule \/ ValidateAll \/ Free

Spec == Init /\ [][Next]_vars

(***************************************************************************)
(* Vocabulary of the properties.                                           *)
(***************************************************************************)
IsPrefix(s, t) == Len(s) <= Len(t) /\ SubSeq(t, 1, Len(s)) = s

\* the pieces the latest operation appended to the diagnostic buffer
Appended ==
    SubSeq(result.output.data, Len(last.pre.output.data) + 1, Len(result.output.data))

LineBreaks(pieces) == Cardinality({k \in 1..Len(pieces) : pieces[k] = "\n"})

RECURSIVE Text(_)
\* the diagnostic text: the pieces in the order written
Text(pieces) == IF pieces = <<>> THEN "" ELSE Head(pieces) \o Text(Tail(pieces))

Bit(flags, b) == (flags \div (2 ^ b)) % 2 = 1

\* the number of set bits of a value of policy->rules
PopCount(flags) == Cardinality({b \in 0..MaxRulesValue : Bit(flags, b)})

\* the rules a policy enables that the registry defines
ActiveRules(pol) == {r \in 0..(RegistryLen - 1) : Bit(pol.rules, r)}

\* categories: 1 cipher suites, 2 signature schemes, 3 certificate signature
\* schemes, 4 curves
Categories == 1..4

ListOf(pol, c) ==
    CASE c = 1 -> pol.cipher_preferences
      [] c = 2 -> pol.signature_preferences
      [] c = 3 -> pol.certificate_signature_preferences
      [] c = 4 -> pol.ecc_preferences

EntryOf(pol, c, i) ==
    CASE c = 1 -> pol.cipher_preferences.suites[i + 1]
      [] c = 2 -> pol.signature_preferences.signature_schemes[i + 1]
      [] c = 3 -> pol.certificate_signature_preferences.signature_schemes[i + 1]
      [] c = 4 -> pol.ecc_preferences.ecc_curves[i + 1]

\* the verdict of rule r's validator for category c on an entry
PredicateOf(r, c, entry) ==
    CASE c = 1 -> CallCipherSuite(security_rule_definitions[r + 1].validate_cipher_suite, entry)
      [] c = 2 -> CallSigScheme(security_rule_definitions[r + 1].validate_sig_scheme, entry)
      [] c = 3 -> CallSigScheme(security_rule_definitions[r + 1].validate_cert_sig_scheme, entry)
      [] c = 4 -> CallCurve(security_rule_definitions[r + 1].validate_curve, entry)

\* an entry on which the validator cannot be evaluated
Malformed(r, c, entry) == entry.null \/ ~PredicateOf(r, c, entry).ok

\* every (active rule, category, index) of the present categories
AllPairs(pol) ==
    UNION {{<<r, c, i>> : i \in 0..(ListOf(pol, c).count - 1)} :
        <<r, c>> \in {x \in ActiveRules(pol) \X Categories : ~ListOf(pol, x[2]).null}}

\* the pairs whose predicate returns false
FailingPairs(pol) ==
    {x \in AllPairs(pol) :
        /\ ~Malformed(x[1], x[2], EntryOf(pol, x[2], x[3]))
        /\ ~PredicateOf(x[1], x[2], EntryOf(pol, x[2], x[3])).valid}

\* what one rule has to go through, in order: the entries of each present
\* list, and one malformed step for a mandatory list that is missing
StepsOfCategory(r, pol, c) ==
    IF ListOf(pol, c).null
    THEN IF c = 3 THEN <<>>
         ELSE <<[rule |-> r, cat |-> c, i |-> -1, malformed |-> TRUE]>>
    ELSE [k \in 1..ListOf(pol, c).count |->
             [rule |-> r, cat |-> c, i |-> k - 1,
              malformed |-> Malformed(r, c, EntryOf(pol, c, k - 1))]]

StepsOfRule(r, pol) ==
    StepsOfCategory(r, pol, 1) \o StepsOfCategory(r, pol, 2)
        \o StepsOfCategory(r, pol, 3) \o StepsOfCategory(r, pol, 4)

RECURSIVE StepsFrom(_, _)
StepsFrom(r, pol) ==
    IF r >= RegistryLen THEN <<>>
    ELSE (IF r \in ActiveRules(pol) THEN StepsOfRule(r, pol) ELSE <<>>)
             \o StepsFrom(r + 1, pol)

Steps(pol) == IF pol.null THEN <<>> ELSE StepsFrom(0, pol)

\* the verdicts obtained are the first steps, in order, none malformed
FollowsSteps(evaluated, steps) ==
    /\ Len(evaluated) <= Len(steps)
    /\ \A k \in 1..Len(evaluated) :
          /\ evaluated[k].rule = steps[k].rule
          /\ evaluated[k].cat = steps[k].cat
          /\ evaluated[k].i = steps[k].i
          /\ ~steps[k].malformed

HasMalformed(pol) == pol.null \/ \E k \in 1..Len(Steps(pol)) : Steps(pol)[k].malformed

Violations(evaluated) == SelectSeq(evaluated, LAMBDA e : ~e.valid)

\* (rule, category, index) in lexicographic order
Before(e, f) ==
    \/ e.rule < f.rule
    \/ e.rule = f.rule /\ e.cat < f.cat
    \/ e.rule = f.rule /\ e.cat = f.cat /\ e.i < f.i

CategoryLabel(c) ==
    CASE c = 1 -> "cipher suite"
      [] c = 2 -> "signature scheme"
      [] c = 3 -> "certificate signature scheme"
      [] c = 4 -> "curve"

\* the diagnostic line of a violation: names as they are, wire identifiers in
\* hexadecimal, the position counted from 1
DiagnosticLine(pol, e) ==
    security_rule_definitions[e.rule + 1].name \o ": policy " \o PolicyName(pol) \o ": "
        \o CategoryLabel(e.cat) \o ": "
        \o (IF e.cat \in {2, 3} THEN FormatHex(EntryOf(pol, e.cat, e.i).iana_value)
            ELSE EntryOf(pol, e.cat, e.i).name)
        \o " (#" \o ToString(e.i + 1) \o ")"

\* the result a call on pre would work on had capture not been enabled
Silent(pre) == [pre EXCEPT !.write_output = FALSE, !.output = ZeroStuffer]

FreshCapturing ==
    [found_error |-> FALSE, write_output |-> TRUE,
     output |-> [alloced |-> TRUE, growable |-> TRUE, data |-> <<>>]]

TestAllCiphers ==
    Policy(Nominal, Prefs("suites", <<DHE_SUITE, RSA_SUITE>>),
           2 ^ S2N_PERFECT_FORWARD_SECRECY)

(***************************************************************************)
(* Properties.                                                             *)
(***************************************************************************)

\* C1: when s2n_security_policy_validate_security_rules returns success on a
\* capturing result, the lines it appended are as many as the (active rule,
\* entry) pairs whose predicate returned false, every pair of every present
\* category was evaluated exactly once, and no line is missing or merged.
C1_LineCount ==
    (last.op = "all" /\ last.ret /\ last.pre.write_output) =>
        /\ LineBreaks(Appended) = Cardinality(FailingPairs(policy))
        /\ Len(Appended) = 2 * Cardinality(FailingPairs(policy))
        /\ Len(last.evaluated) = Cardinality(AllPairs(policy))
        /\ {<<e.rule, e.cat, e.i>> : e \in {last.evaluated[k] : k \in 1..Len(last.evaluated)}}
               = AllPairs(policy)

\* C1 witness: a successful capturing call on two non-ephemeral suites of
\* the same name, which gives two lines.
C1_Witness ==
    /\ last.op = "all" /\ last.ret /\ last.pre.write_output
    /\ ~policy.null /\ ~policy.cipher_preferences.null
    /\ policy.cipher_preferences.suites = <<RSA_SUITE, RSA_SUITE>>
    /\ LineBreaks(Appended) = 2

\* C2: a call of s2n_security_policy_validate_security_rules on a capturing
\* result ends with the found_error that the same call on the same result
\* without capture ends with, whether or not growing the buffer failed.
C2_CaptureIsObservationOnly ==
    (last.op = "all" /\ last.pre.write_output) =>
        result.found_error =
            s2n_security_policy_validate_security_rules(policy,
                StartCall(Silent(last.pre), 0)).result.found_error

\* C2 witness: a capturing call that found its first violation and then
\* failed to grow the buffer.
C2_Witness ==
    /\ last.op = "all" /\ last.pre.write_output
    /\ last.growfail /\ ~last.pre.found_error /\ result.found_error

\* C3: the selector fails whenever policy->rules has a bit set at a position
\* the registry does not define, and every pointer it selects is a registry
\* entry.
C3_OutOfRangeBitRejected ==
    (last.op = "all" /\ ~policy.null) =>
        /\ (\E b \in RegistryLen..MaxRulesValue : Bit(policy.rules, b)) => ~last.sel.ok
        /\ \A k \in 1..Len(last.sel.rules) : last.sel.rules[k].id < RegistryLen

\* C4: when the selector succeeds its list holds the registry entries of the
\* set bits of policy->rules in strictly ascending order, and is as long as
\* the number of set bits.
C4_SelectedAreTheSetBits ==
    (last.op = "all" /\ last.sel.ok) =>
        /\ last.sel.rules_count = Len(last.sel.rules)
        /\ Len(last.sel.rules) = PopCount(policy.rules)
        /\ \A k \in 1..Len(last.sel.rules) : Bit(policy.rules, last.sel.rules[k].id)
        /\ \A j, k \in 1..Len(last.sel.rules) :
               j < k => last.sel.rules[j].id < last.sel.rules[k].id

\* C5 as stated: on a fresh capturing result the policy test_all_ciphers
\* ends with found_error and the one line
\* "Perfect Forward Secrecy: policy test_all_ciphers: cipher suite RSA_SUITE (#2)".
C5_AsStated ==
    (policy = TestAllCiphers /\ last.op = "all" /\ last.ret /\ last.pre = FreshCapturing) =>
        /\ result.found_error
        /\ Text(result.output.data) =
               "Perfect Forward Secrecy: policy test_all_ciphers: cipher suite RSA_SUITE (#2)"
                   \o "\n"

\* C5 amended: on a fresh capturing result the policy test_all_ciphers ends
\* with found_error, and when the call succeeds the text is the one line
\* "Perfect Forward Secrecy: policy test_all_ciphers: cipher suite: RSA_SUITE (#2)"
\* and a line break (a colon follows the category label).
C5_Amended ==
    (policy = TestAllCiphers /\ last.op = "all" /\ last.pre = FreshCapturing) =>
        /\ result.found_error
        /\ last.ret =>
               Text(result.output.data) =
                   "Perfect Forward Secrecy: policy test_all_ciphers: cipher suite: RSA_SUITE (#2)"
                       \o "\n"

\* C5 witness: the successful call on test_all_ciphers and a fresh capturing
\* result.
C5_Witness ==
    /\ policy = TestAllCiphers /\ last.op = "all" /\ last.ret
    /\ last.pre = FreshCapturing /\ result.output.data # <<>>

\* C6: s2n_security_policy_validate_security_rules returns an error exactly
\* when there is an internal error (a missing policy, a missing mandatory
\* list, a malformed entry, a failed buffer growth), never for violations
\* alone, and on an error nothing after the failing step was evaluated.
C6_ErrorsAndViolationsDisjoint ==
    (last.op = "all") =>
        /\ FollowsSteps(last.evaluated, Steps(policy))
        /\ last.ret <=> (~HasMalformed(policy) /\ ~last.growfail)
        /\ last.ret => Len(last.evaluated) = Len(Steps(policy))
        /\ (~last.ret /\ last.growfail) =>
               /\ last.pre.write_output
               /\ last.evaluated # <<>>
               /\ ~last.evaluated[Len(last.evaluated)].valid
        /\ (~last.ret /\ ~last.growfail) =>
               \/ policy.null /\ last.evaluated = <<>>
               \/ /\ ~policy.null
                  /\ Len(last.evaluated) < Len(Steps(policy))
                  /\ Steps(policy)[Len(last.evaluated) + 1].malformed

\* C6 witness: a call that recorded a violation, then met a malformed entry
\* and returned the error leaving later entries unevaluated.
C6_Witness ==
    /\ last.op = "all" /\ ~last.ret /\ ~last.growfail
    /\ Violations(last.evaluated) # <<>>
    /\ Len(last.evaluated) + 1 < Len(Steps(policy))

\* C7: s2n_security_rule_result_free succeeds on every result and leaves the
\* zero result; on a released result it changes nothing.
C7_FreeTotalIdempotent ==
    (last.op = "free") =>
        /\ last.ret
        /\ result = ZeroResult
        /\ last.pre = ZeroResult => result = last.pre

\* C7 witness: the release of a capturing result holding text and an error.
C7_Witness ==
    /\ last.op = "free" /\ last.pre.write_output /\ last.pre.found_error
    /\ last.pre.output.data # <<>>

\* C8: while s2n_security_rule_result_init_output has not been called the
\* diagnostic buffer is neither allocated nor written, whatever is validated.
C8_NoCaptureNoBuffer ==
    ~initCalled => result.output = ZeroStuffer

\* C8 witness: a violation found on a result never initialised for capture.
C8_Witness ==
    /\ ~initCalled /\ last.op = "all" /\ last.ret
    /\ result.found_error /\ ~last.pre.found_error

\* C9: verdicts are obtained in ascending (rule, category, index) order with
\* no certificate signature verdict when that list is absent, and a
\* successful capturing call appends, for each violation in that order, its
\* line with the 1-based position followed by a line break.
C9_DiagnosticOrder ==
    (last.op = "all") =>
        /\ \A j, k \in 1..Len(last.evaluated) :
               j < k => Before(last.evaluated[j], last.evaluated[k])
        /\ (~policy.null /\ policy.certificate_signature_preferences.null) =>
               \A k \in 1..Len(last.evaluated) : last.evaluated[k].cat # 3
        /\ (last.ret /\ last.pre.write_output) =>
               /\ Len(Appended) = 2 * Len(Violations(last.evaluated))
               /\ \A k \in 1..Len(Violations(last.evaluated)) :
                      /\ Appended[2 * k - 1] =
                             DiagnosticLine(policy, Violations(last.evaluated)[k])
                      /\ Appended[2 * k] = "\n"

\* C9 witness: a successful capturing call with two violations on a policy
\* that has a certificate signature list.
C9_Witness ==
    /\ last.op = "all" /\ last.ret /\ last.pre.write_output
    /\ Len(Violations(last.evaluated)) = 2
    /\ \E k \in 1..Len(last.evaluated) : last.evaluated[k].cat = 3

\* C10: a validation call never clears found_error, never changes
\* write_output and only appends to the diagnostic buffer; a call of
\* s2n_security_policy_validate_security_rules with no rule enabled leaves
\* the result as it was.
C10_StickyAndFramed ==
    (last.op \in {"rule", "all"}) =>
        /\ last.pre.found_error => result.found_error
        /\ result.write_output = last.pre.write_output
        /\ result.output.alloced = last.pre.output.alloced
        /\ result.output.growable = last.pre.output.growable
        /\ IsPrefix(last.pre.output.data, result.output.data)
        /\ (last.op = "all" /\ ~policy.null /\ policy.rules = 0) =>
               last.ret /\ result = last.pre

\* C10 witness: a call with no rule enabled on a result that already holds
\* an error and text.
C10_Witness ==
    /\ last.op = "all" /\ ~policy.null /\ policy.rules = 0
    /\ last.pre.found_error /\ last.pre.output.data # <<>>

====
